---- MODULE Spec2Model ----
(***************************************************************************)
(* Model of webhook_service.py: the POST /resend-webhook handler           *)
(* (handle_webhook) and the email_events table it reads and writes.        *)
(*                                                                         *)
(* A handler call is a sequence of steps, one per store access: what the   *)
(* handler does between two store calls is local to the request and is     *)
(* folded into the step of the access before it.  The table is shared by   *)
(* every call (and by every worker process serving the app), so the steps  *)
(* of different calls interleave at the store accesses.  A store access    *)
(* may fail (Spec); SpecOk is the handler against a store that never       *)
(* fails, SpecSeq the same with one request at a time.  SpecData is the    *)
(* sequential handler fed with payloads of every event type and every      *)
(* field the handler reads, while the clock of the service advances;       *)
(* SpecLegacy the sequential handler on a table that already holds an      *)
(* email.opened record whose opened fields are NULL.                       *)
(*                                                                         *)
(* Encoding: a Python dict is a function whose DOMAIN is the dict's keys,  *)
(* a list is a sequence; the fields of the payload's data object are       *)
(* fields of the payload; provider strings and timestamps are opaque       *)
(* values, written as positive numbers (the code never parses or compares  *)
(* them); Python None / JSON null / SQL NULL is None.  A payload without   *)
(* email_id is not modelled (its lookup depends on how the client library  *)
(* encodes None in a filter).                                              *)
(***************************************************************************)
EXTENDS Integers, Sequences, FiniteSets, TLC

\* ---- bounds ----
NumProcs == 2       \* handler calls that can be in flight at once
MaxCalls == 4       \* handler calls started in one behaviour

None == -1

Procs == 1..NumProcs
EmailIds == {"E1", "E2"}
Times == {1, 2}
OPENED == "email.opened"
BOUNCED == "email.bounced"

\* columns of the email_events table that the handler writes or reads
CommonColumns == {"event_type", "created_at", "email_id", "from_email",
                  "to_email", "subject", "tags", "raw_payload",
                  "processed_at"}
BounceColumns == {"bounce_type", "bounce_subtype", "bounce_message"}
ClickColumns == {"click_ip", "click_link", "click_user_agent",
                 "click_timestamp"}
OpenedColumns == {"opened_count", "first_opened_at", "last_opened_at",
                  "device_info", "location_info"}
Columns == {"id"} \cup CommonColumns \cup BounceColumns \cup ClickColumns
               \cup OpenedColumns

\* request bodies: not JSON at all, or a JSON object (a dict)
Payloads ==
    {[type |-> OPENED, created_at |-> t, email_id |-> "E1",
      device_info |-> [os |-> t]] : t \in Times}
    \cup {[type |-> OPENED, email_id |-> "E2"],
          [type |-> BOUNCED, created_at |-> 1, email_id |-> "E1",
           bounce |-> [type |-> 1, subType |-> 2, message |-> 3]]}
    \cup {[type |-> "", created_at |-> 1, email_id |-> "E1"]}
    \cup {[created_at |-> 1, email_id |-> "E1"]}
Bodies == {[json |-> FALSE]} \cup {[json |-> TRUE, doc |-> d] : d \in Payloads}

\* payloads of every event type, with and without the optional fields, and
\* with fields that belong to another event type
DataPayloads ==
    {[type |-> OPENED, created_at |-> 1, email_id |-> "E1", from |-> 1,
      to |-> <<2, 3>>, subject |-> 4, tags |-> <<5>>,
      device_info |-> [os |-> 1], location_info |-> [city |-> 2]],
     [type |-> OPENED, email_id |-> "E1", to |-> <<>>,
      device_info |-> [os |-> 2], click |-> [link |-> 7]],
     [type |-> BOUNCED, created_at |-> 1, email_id |-> "E1", to |-> <<3>>,
      bounce |-> [type |-> 1, subType |-> 2, message |-> 3],
      device_info |-> [os |-> 1]],
     [type |-> BOUNCED, created_at |-> 2, email_id |-> "E2",
      bounce |-> [type |-> 4]],
     [type |-> "email.clicked", created_at |-> 2, email_id |-> "E2",
      click |-> [ipAddress |-> 1, link |-> 2, userAgent |-> 3,
                 timestamp |-> 4]],
     [type |-> "email.delivered", created_at |-> 2, email_id |-> "E2",
      from |-> 1, bounce |-> [type |-> 1], click |-> [link |-> 2],
      device_info |-> [os |-> 1]],
     [created_at |-> 1, email_id |-> "E1"]}
DataBodies == {[json |-> TRUE, doc |-> d] : d \in DataPayloads}

VARIABLES
    store,          \* the email_events table: sequence of rows, row i has id i
    pc,             \* pc[p]: position of worker p in handle_webhook
    body,           \* body[p]: the request body of the call p is handling
    webhook_data,   \* webhook_data[p]: the dict being prepared for storage
    existing_event, \* existing_event[p]: existing.data[0] as selected by p
    acc,            \* history: store accesses made so far by the call of p,
                    \*   and the first of them that failed
    last,           \* history: the call that completed most recently: its
                    \*   request body, its response and its store accesses
    calls,          \* history: number of calls received
    opens,          \* history: opens[e] = number of email.opened events
                    \*   received for e, created_at of the first and the
                    \*   last, and number of the calls for them that have
                    \*   written to the store
    lastWrite       \* history: lastWrite[i] = created_at of the event whose
                    \*   call wrote row i last

vars == <<store, pc, body, webhook_data, existing_event, acc, last, calls,
          opens, lastWrite>>

NoBody == [json |-> FALSE]
NoResp == [status |-> 0, message |-> ""]
NoData == [event_type |-> ""]
NoRow == [id |-> 0]
NoAcc == [select |-> 0, insert |-> 0, update |-> 0, fault |-> ""]

\* dict.get(key, default)
Get(d, key, default) == IF key \in DOMAIN d THEN d[key] ELSE default

\* {}
EmptyDict == <<>>

\* json.dumps(value): the JSON text of the value
Dumps(value) == [dumps |-> value]

\* d.update(e)
DictUpdate(d, e) ==
    [k \in DOMAIN d \cup DOMAIN e |-> IF k \in DOMAIN e THEN e[k] ELSE d[k]]

\* d[key] = value
Put(d, key, value) ==
    [k \in DOMAIN d \cup {key} |-> IF k = key THEN value ELSE d[k]]

\* a check that only notices an absent key
MissingTypeAbsentOnly(payload) == "type" \notin DOMAIN payload

\* `not event_type` after payload.get("type")
MissingType(payload) ==
    IF "type" \in DOMAIN payload THEN payload["type"] = "" ELSE TRUE

\* HTTPException(status_code, detail)
HTTPException(status, detail) == [status |-> status, detail |-> detail]

\* str(e): the text of an exception
Str(exc) == [str |-> exc]

\* the `except Exception` clause around the whole handler body: whatever was
\* raised inside, an HTTPException included, is re-raised as a 500
OuterExcept(exc) == HTTPException(500, Str(exc))

\* lines 106 and 120: f"Updated {event_type} event", f"Stored {event_type}
\* event"
Success(verb, event_type) ==
    [status |-> 200, message |-> verb, event_type |-> event_type]

\* every event type takes the lookup branch
NeedsLookupAlways(event_type) == TRUE

\* line 82: the aggregation branch is taken for email.opened only
NeedsLookup(event_type) == event_type = OPENED

\* line 60: data.get("to", [])[0] if data.get("to") else None
ToEmail(payload) ==
    IF Len(Get(payload, "to", <<>>)) > 0 THEN payload["to"][1] ELSE None

\* lines 55-65: the fields stored for every event; now is the clock reading
\* of line 64
CommonData(payload, now) ==
    [event_type   |-> payload["type"],
     created_at   |-> Get(payload, "created_at", None),
     email_id     |-> payload["email_id"],
     from_email   |-> Get(payload, "from", None),
     to_email     |-> ToEmail(payload),
     subject      |-> Get(payload, "subject", None),
     tags         |-> Dumps(Get(payload, "tags", <<>>)),
     raw_payload  |-> Dumps(payload),
     processed_at |-> now]

\* lines 69-73
BounceData(payload) ==
    LET bounce == Get(payload, "bounce", EmptyDict)
    IN  [bounce_type    |-> Get(bounce, "type", None),
         bounce_subtype |-> Get(bounce, "subType", None),
         bounce_message |-> Get(bounce, "message", None)]

\* lines 75-81
ClickData(payload) ==
    LET click_data == Get(payload, "click", EmptyDict)
    IN  [click_ip         |-> Get(click_data, "ipAddress", None),
         click_link       |-> Get(click_data, "link", None),
         click_user_agent |-> Get(click_data, "userAgent", None),
         click_timestamp  |-> Get(click_data, "timestamp", None)]

\* the counter of a new record starts at 0
OpenedDataFromZero(payload) ==
    [opened_count    |-> 0,
     first_opened_at |-> Get(payload, "created_at", None),
     last_opened_at  |-> Get(payload, "created_at", None),
     device_info     |-> Dumps(Get(payload, "device_info", EmptyDict)),
     location_info   |-> Dumps(Get(payload, "location_info", EmptyDict))]

\* lines 84-90
OpenedData(payload) ==
    [opened_count    |-> 1,
     first_opened_at |-> Get(payload, "created_at", None),
     last_opened_at  |-> Get(payload, "created_at", None),
     device_info     |-> Dumps(Get(payload, "device_info", EmptyDict)),
     location_info   |-> Dumps(Get(payload, "location_info", EmptyDict))]

\* the bounce fields are stored whatever the event type is
PrepareDataBounceAlways(payload, now) ==
    LET event_type == payload["type"]
        common == DictUpdate(CommonData(payload, now), BounceData(payload))
    IN  IF event_type = "email.clicked"
        THEN DictUpdate(common, ClickData(payload))
        ELSE IF event_type = OPENED
        THEN DictUpdate(common, OpenedData(payload))
        ELSE common

\* lines 55-90: webhook_data as prepared before any store access
PrepareData(payload, now) ==
    LET event_type == payload["type"]
        common == CommonData(payload, now)
    IN  IF event_type = BOUNCED
        THEN DictUpdate(common, BounceData(payload))
        ELSE IF event_type = "email.clicked"
        THEN DictUpdate(common, ClickData(payload))
        ELSE IF event_type = OPENED
        THEN DictUpdate(common, OpenedData(payload))
        ELSE common

\* select("*").eq("email_id", e).eq("event_type", "email.opened")
SelectOpened(st, e) ==
    {st[i] : i \in {j \in 1..Len(st) :
                       st[j].email_id = e /\ st[j].event_type = OPENED}}

\* None + 1 raises TypeError
AddOneRaises(data, existing) == Get(existing, "opened_count", 0) = None

\* the counter is left at its initial value
MergeExistingNoIncrement(data, existing) ==
    Put(Put(data, "first_opened_at",
            Get(existing, "first_opened_at", data["created_at"])),
        "last_opened_at", data["created_at"])

\* last_opened_at is carried over like first_opened_at
MergeExistingKeepLast(data, existing) ==
    Put(Put(Put(data,
        "opened_count", Get(existing, "opened_count", 0) + 1),
        "first_opened_at",
            Get(existing, "first_opened_at", data["created_at"])),
        "last_opened_at",
            Get(existing, "last_opened_at", data["created_at"]))

\* first_opened_at is overwritten like last_opened_at
MergeExistingResetFirst(data, existing) ==
    Put(Put(data, "opened_count", Get(existing, "opened_count", 0) + 1),
        "last_opened_at", data["created_at"])

\* lines 99-101: webhook_data after merging the existing record into it
MergeExisting(data, existing) ==
    Put(Put(Put(data,
        "opened_count", Get(existing, "opened_count", 0) + 1),
        "first_opened_at",
            Get(existing, "first_opened_at", data["created_at"])),
        "last_opened_at", data["created_at"])

\* only the aggregation columns are overwritten
UpdateRowCountersOnly(row, data) ==
    [c \in DOMAIN row |->
        IF c \in DOMAIN data \cap
                {"opened_count", "first_opened_at", "last_opened_at"}
        THEN data[c] ELSE row[c]]

\* update(data).eq("id", id): the columns named in data are overwritten
UpdateRow(row, data) ==
    [c \in DOMAIN row |-> IF c \in DOMAIN data THEN data[c] ELSE row[c]]

\* the counter is incremented inside the store, from the stored value
UpdateStoreAtomic(st, id, data) ==
    [i \in 1..Len(st) |->
        IF st[i].id = id
        THEN UpdateRow(st[i], Put(data, "opened_count", st[i].opened_count + 1))
        ELSE st[i]]

\* the update is filtered by the key of the lookup instead of the id
UpdateStoreByEmail(st, id, data) ==
    [i \in 1..Len(st) |->
        IF st[i].email_id = data["email_id"] /\ st[i].event_type = OPENED
        THEN UpdateRow(st[i], data) ELSE st[i]]

\* update(data).eq("id", id)
UpdateStore(st, id, data) ==
    [i \in 1..Len(st) |->
        IF st[i].id = id THEN UpdateRow(st[i], data) ELSE st[i]]

\* insert(data): a new row with a fresh id, unnamed columns NULL
InsertRow(st, data) ==
    [c \in Columns |-> IF c = "id" THEN Len(st) + 1
                       ELSE IF c \in DOMAIN data THEN data[c] ELSE None]

EmailOf(p) == body[p].doc["email_id"]
EventTime(p) == Get(body[p].doc, "created_at", None)

\* lines 37-47: the body does not parse, or the payload has no event type
Rejected(b) == IF b.json THEN MissingType(b.doc) ELSE TRUE

\* the call of p has written to the store
Written(p) ==
    opens' = IF body[p].doc["type"] = OPENED
             THEN [opens EXCEPT ![EmailOf(p)].written = @ + 1]
             ELSE opens

\* a completed call
Completed(b, r, a) == [body |-> b, resp |-> r, acc |-> a]

\* the handler returns or raises with response r after the accesses a: the
\* locals are gone and the worker is free for the next request
Finish(p, r, a) ==
    /\ last' = Completed(body[p], r, a)
    /\ pc' = [pc EXCEPT ![p] = "idle"]
    /\ body' = [body EXCEPT ![p] = NoBody]
    /\ webhook_data' = [webhook_data EXCEPT ![p] = NoData]
    /\ existing_event' = [existing_event EXCEPT ![p] = NoRow]
    /\ acc' = [acc EXCEPT ![p] = NoAcc]

Init ==
    /\ store = <<>>
    /\ pc = [p \in Procs |-> "idle"]
    /\ body = [p \in Procs |-> NoBody]
    /\ webhook_data = [p \in Procs |-> NoData]
    /\ existing_event = [p \in Procs |-> NoRow]
    /\ acc = [p \in Procs |-> NoAcc]
    /\ last = Completed(NoBody, NoResp, NoAcc)
    /\ calls = 0
    /\ opens = [e \in EmailIds |->
                [n |-> 0, first |-> None, last |-> None, written |-> 0]]
    /\ lastWrite = <<>>

\* lines 35-47 and 122-124: a request arrives whose body is not JSON or has
\* no event type; it is answered before any store access
Reject(p, b) ==
    /\ pc[p] = "idle"
    /\ \A q \in Procs : q < p => pc[q] # "idle"
    /\ calls < MaxCalls
    /\ Rejected(b)
    /\ calls' = calls + 1
    /\ last' = Completed(b,
                  IF ~b.json THEN OuterExcept([message |-> "JSONDecodeError"])
                  ELSE OuterExcept(HTTPException(400, "Missing event type")),
                  NoAcc)
    /\ UNCHANGED <<store, pc, body, webhook_data, existing_event, acc, opens,
                   lastWrite>>

\* lines 35-90: a request arrives, its body is parsed and the record
\* prepared; now is what the clock of the service shows.  The workers are
\* interchangeable: the first free one takes it.
Receive(p, b, now) ==
    /\ pc[p] = "idle"
    /\ \A q \in Procs : q < p => pc[q] # "idle"
    /\ calls < MaxCalls
    /\ ~Rejected(b)
    /\ calls' = calls + 1
    /\ body' = [body EXCEPT ![p] = b]
    /\ webhook_data' = [webhook_data EXCEPT ![p] = PrepareData(b.doc, now)]
    /\ pc' = [pc EXCEPT ![p] =
                IF NeedsLookup(b.doc["type"]) THEN "select" ELSE "insert"]
    /\ opens' = IF b.doc["type"] = OPENED
                THEN [opens EXCEPT ![b.doc["email_id"]] =
                        [n |-> @.n + 1,
                         first |-> IF @.n = 0
                                   THEN Get(b.doc, "created_at", None)
                                   ELSE @.first,
                         last |-> Get(b.doc, "created_at", None),
                         written |-> @.written]]
                ELSE opens
    /\ UNCHANGED <<store, existing_event, acc, last, lastWrite>>

\* line 95 succeeds with an empty result: fall through to the insert
SelectNone(p) ==
    /\ pc[p] = "select"
    /\ SelectOpened(store, EmailOf(p)) = {}
    /\ acc' = [acc EXCEPT ![p].select = @ + 1]
    /\ pc' = [pc EXCEPT ![p] = "insert"]
    /\ UNCHANGED <<store, body, webhook_data, existing_event, last, calls,
                   opens, lastWrite>>

\* lines 95-103: the select returns rows; existing.data[0] is whichever row
\* the store lists first (the query has no order clause)
SelectFound(p) ==
    /\ pc[p] = "select"
    /\ \E row \in SelectOpened(store, EmailOf(p)) :
         IF AddOneRaises(webhook_data[p], row)
         THEN Finish(p, OuterExcept([message |-> "TypeError"]),
                     [acc[p] EXCEPT !.select = @ + 1])
         ELSE /\ acc' = [acc EXCEPT ![p].select = @ + 1]
              /\ existing_event' = [existing_event EXCEPT ![p] = row]
              /\ webhook_data' = [webhook_data EXCEPT ![p] =
                                    MergeExisting(@, row)]
              /\ pc' = [pc EXCEPT ![p] = "update"]
              /\ UNCHANGED <<body, last>>
    /\ UNCHANGED <<store, calls, opens, lastWrite>>

\* the failure of the lookup is logged and swallowed, and the handler falls
\* through to the insert
SelectRaisesLenient(p) ==
    /\ pc[p] = "select"
    /\ acc' = [acc EXCEPT ![p].select = @ + 1, ![p].fault = "select raised"]
    /\ pc' = [pc EXCEPT ![p] = "insert"]
    /\ UNCHANGED <<store, body, webhook_data, existing_event, last, calls,
                   opens, lastWrite>>

\* line 95 raises: logged, re-raised (line 109), answered by line 124
SelectRaises(p) ==
    /\ pc[p] = "select"
    /\ Finish(p, OuterExcept([message |-> "store error"]),
              [acc[p] EXCEPT !.select = @ + 1, !.fault = "select raised"])
    /\ UNCHANGED <<store, calls, opens, lastWrite>>

\* the update does not return and falls through to the insert
UpdateNoReturn(p) ==
    /\ pc[p] = "update"
    /\ store' = UpdateStore(store, existing_event[p]["id"], webhook_data[p])
    /\ lastWrite' = [lastWrite EXCEPT ![existing_event[p]["id"]] =
                        EventTime(p)]
    /\ acc' = [acc EXCEPT ![p].update = @ + 1]
    /\ pc' = [pc EXCEPT ![p] = "insert"]
    /\ Written(p)
    /\ UNCHANGED <<body, webhook_data, existing_event, last, calls>>

\* the update answers with the message of the insert
UpdateSaysStored(p) ==
    /\ pc[p] = "update"
    /\ store' = UpdateStore(store, existing_event[p]["id"], webhook_data[p])
    /\ lastWrite' = [lastWrite EXCEPT ![existing_event[p]["id"]] =
                        EventTime(p)]
    /\ Finish(p, Success("Stored", webhook_data[p]["event_type"]),
              [acc[p] EXCEPT !.update = @ + 1])
    /\ Written(p)
    /\ UNCHANGED calls

\* lines 105-106: the update is issued, its result is not looked at, and the
\* handler returns
Update(p) ==
    /\ pc[p] = "update"
    /\ store' = UpdateStore(store, existing_event[p]["id"], webhook_data[p])
    /\ lastWrite' = [lastWrite EXCEPT ![existing_event[p]["id"]] =
                        EventTime(p)]
    /\ Finish(p, Success("Updated", webhook_data[p]["event_type"]),
              [acc[p] EXCEPT !.update = @ + 1])
    /\ Written(p)
    /\ UNCHANGED calls

\* line 105 raises
UpdateRaises(p) ==
    /\ pc[p] = "update"
    /\ Finish(p, OuterExcept([message |-> "store error"]),
              [acc[p] EXCEPT !.update = @ + 1, !.fault = "update raised"])
    /\ UNCHANGED <<store, calls, opens, lastWrite>>

\* lines 113-120: the insert returns the created record
Insert(p) ==
    /\ pc[p] = "insert"
    /\ store' = Append(store, InsertRow(store, webhook_data[p]))
    /\ lastWrite' = Append(lastWrite, EventTime(p))
    /\ Finish(p, Success("Stored", webhook_data[p]["event_type"]),
              [acc[p] EXCEPT !.insert = @ + 1])
    /\ Written(p)
    /\ UNCHANGED calls

\* the result of the insert is not looked at
InsertFailsUnchecked(p) ==
    /\ pc[p] = "insert"
    /\ \E raised \in BOOLEAN :
         Finish(p,
                IF raised THEN OuterExcept([message |-> "store error"])
                ELSE Success("Stored", webhook_data[p]["event_type"]),
                [acc[p] EXCEPT !.insert = @ + 1,
                               !.fault = IF raised THEN "insert raised"
                                         ELSE "insert empty"])
    /\ UNCHANGED <<store, calls, opens, lastWrite>>

\* lines 113-117: the insert creates no record: it returns no data, or raises
InsertFails(p) ==
    /\ pc[p] = "insert"
    /\ \E raised \in BOOLEAN :
         Finish(p,
                OuterExcept(IF raised THEN [message |-> "store error"]
                            ELSE HTTPException(500,
                                     "Failed to store webhook data")),
                [acc[p] EXCEPT !.insert = @ + 1,
                               !.fault = IF raised THEN "insert raised"
                                         ELSE "insert empty"])
    /\ UNCHANGED <<store, calls, opens, lastWrite>>

\* the steps of a call against a store that answers
Handle(p) ==
    \/ SelectNone(p)
    \/ SelectFound(p)
    \/ Update(p)
    \/ Insert(p)

\* the steps of a call in which the store fails
Fail(p) ==
    \/ SelectRaises(p)
    \/ UpdateRaises(p)
    \/ InsertFails(p)

\* a request arrives; the clock of the service is not observed, every call
\* reads the same time
Arrive(p) == \E b \in Bodies : Reject(p, b) \/ Receive(p, b, 0)

Next == \E p \in Procs : Arrive(p) \/ Handle(p) \/ Fail(p)

Spec == Init /\ [][Next]_vars

\* The handler against a store that never fails.
NextOk == \E p \in Procs : Arrive(p) \/ Handle(p)

SpecOk == Init /\ [][NextOk]_vars

\* The handler driven by a caller that sends one request at a time, against a
\* store that never fails.
ArriveSeq(p) == (\A q \in Procs : pc[q] = "idle") /\ Arrive(p)

NextSeq == \E p \in Procs : ArriveSeq(p) \/ Handle(p)

SpecSeq == Init /\ [][NextSeq]_vars

\* The handler driven by a caller that sends one request at a time, with
\* payloads of every event type, against a store that never fails; the clock
\* of the service advances between two requests.
ArriveData(p) ==
    /\ \A q \in Procs : pc[q] = "idle"
    /\ \E b \in DataBodies : Reject(p, b) \/ Receive(p, b, calls + 1)

NextData == \E p \in Procs : ArriveData(p) \/ Handle(p)

SpecData == Init /\ [][NextData]_vars

\* The sequential handler against a table that already holds a record written
\* before opens were counted: an email.opened record for E1 whose opened
\* fields are NULL.
LegacyRow ==
    InsertRow(<<>>, CommonData([type |-> OPENED, created_at |-> 1,
                                email_id |-> "E1"], 0))

InitLegacy ==
    /\ store = <<LegacyRow>>
    /\ pc = [p \in Procs |-> "idle"]
    /\ body = [p \in Procs |-> NoBody]
    /\ webhook_data = [p \in Procs |-> NoData]
    /\ existing_event = [p \in Procs |-> NoRow]
    /\ acc = [p \in Procs |-> NoAcc]
    /\ last = Completed(NoBody, NoResp, NoAcc)
    /\ calls = 0
    /\ opens = [e \in EmailIds |->
                [n |-> 0, first |-> None, last |-> None, written |-> 0]]
    /\ lastWrite = <<1>>

SpecLegacy == InitLegacy /\ [][NextSeq]_vars

TypeOK ==
    /\ pc \in [Procs -> {"idle", "select", "update", "insert"}]
    /\ calls \in 0..MaxCalls
    /\ Len(store) <= MaxCalls + 1 /\ Len(lastWrite) = Len(store)
    /\ \A i \in 1..Len(store) : store[i].id = i /\ DOMAIN store[i] = Columns

\* ---- helpers of the properties ----
OpenedRows(e) ==
    {store[i] : i \in {j \in 1..Len(store) :
        store[j].email_id = e /\ store[j].event_type = "email.opened"}}
LacksType(b) == b.json /\ ("type" \notin DOMAIN b.doc \/ b.doc["type"] = "")
Quiet == \A p \in Procs : pc[p] = "idle"

\* C1 (under SpecSeq: one call at a time, no store failure, empty store at
\* the start): after n >= 1 email.opened events for E have been handled there
\* is exactly one record for (E, email.opened); its opened_count is n, its
\* first_opened_at the first event's created_at and its last_opened_at the
\* n-th event's created_at.
C1_SequentialOpens ==
    \A e \in EmailIds :
        (opens[e].n >= 1 /\ Quiet)
        => \E row \in OpenedRows(e) :
              /\ OpenedRows(e) = {row}
              /\ row.opened_count = opens[e].n
              /\ row.first_opened_at = opens[e].first
              /\ row.last_opened_at = opens[e].last

C1_Witness ==
    /\ opens["E1"].n = 3 /\ Quiet
    /\ opens["E1"].first = 1 /\ opens["E1"].last # 1
    /\ \E row \in OpenedRows("E1") : row.opened_count = 3

\* C2: the store never holds two records for one (email_id, email.opened).
C2_AtMostOneOpenedRow ==
    \A e \in EmailIds : Cardinality(OpenedRows(e)) <= 1

\* C3: a request whose body is not JSON or has no event type is answered
\* with a 4xx status.
C3_ClientError ==
    (~last.body.json \/ LacksType(last.body))
    => last.resp.status \in 400..499 \/ last.resp = NoResp

\* C4: a call whose payload has no event type makes no store access (no
\* select, insert or update): it is never at a store step, and it completes
\* without having made one.
C4_NoStoreAccessWithoutType ==
    /\ \A p \in Procs : pc[p] # "idle" => ~LacksType(body[p])
    /\ LacksType(last.body) => last.acc = NoAcc

C4_Witness ==
    /\ Len(store) >= 1
    /\ last.body.json /\ "type" \in DOMAIN last.body.doc
    /\ last.body.doc["type"] = ""
    /\ last.resp.status = 500

\* C5: when a call updates a record on which another call has already
\* added one to the opened_count c that this call selected (so both selected
\* the same prior record and both update it), and it answers with success,
\* the stored count stays c + 1: the two opens added 1 in total.
C5_LostUpdate ==
    [][\A p \in Procs :
        LET id == existing_event[p]["id"] IN
        ( /\ pc[p] = "update"
          /\ store[id]["opened_count"] = existing_event[p]["opened_count"] + 1
          /\ pc'[p] = "idle" /\ last' # last
          /\ last'.resp = Success("Updated", OPENED) )
        => store'[id]["opened_count"] = store[id]["opened_count"]]_vars

C5_Witness ==
    /\ calls = 3 /\ opens["E1"].n = 3 /\ Quiet
    /\ last.resp = Success("Updated", OPENED)
    /\ Len(store) = 1 /\ store[1]["opened_count"] = 2

\* C6: no step lowers the opened_count of an email.opened record.
C6_CountNeverDecreases ==
    [][\A i \in 1..Len(store) :
        store[i].event_type = "email.opened"
        => store'[i].opened_count >= store[i].opened_count]_vars

\* C7: no step changes the first_opened_at of a stored email.opened record.
C7_FirstOpenedImmutable ==
    [][\A i \in 1..Len(store) :
        store[i].event_type = "email.opened"
        => /\ i <= Len(store')
           /\ store'[i].first_opened_at = store[i].first_opened_at]_vars

C7_Witness ==
    \E i \in 1..Len(store) :
        /\ store[i].event_type = "email.opened"
        /\ store[i].opened_count >= 2
        /\ store[i].first_opened_at = 1 /\ store[i].last_opened_at # 1
        /\ opens[store[i].email_id].n > store[i].opened_count
        /\ Quiet

\* C8 as stated: while no call is in flight, the record for (E, email.opened)
\* has the created_at of the most recently received email.opened event for E
\* as its last_opened_at.  (Stated for the states with a single record for E
\* whose opened_count is the number of events received: every event has been
\* written, none was lost to a failure or to another call.)
C8_LastOpenedIsLatest ==
    \A e \in EmailIds :
        Quiet
        => \A row \in OpenedRows(e) :
              (OpenedRows(e) = {row} /\ row.opened_count = opens[e].n)
              => row.last_opened_at = opens[e].last

\* C8: while no call is in flight, the last_opened_at of every email.opened
\* record is the created_at of the event whose insert or update was applied
\* to that record last.
C8_LastOpenedIsLastWritten ==
    Quiet
    => \A i \in 1..Len(store) :
          store[i].event_type = "email.opened"
          => store[i].last_opened_at = lastWrite[i]

C8_Witness ==
    /\ Quiet /\ Len(store) = 1
    /\ store[1].email_id = "E1" /\ store[1].opened_count = 2
    /\ opens["E1"].n = 2
    /\ store[1].last_opened_at = 1 /\ lastWrite[1] = 1
    /\ opens["E1"].last # 1

\* C9: a record of another event type than email.opened is never changed by
\* a step; a call for such an event makes no select and no update, before
\* and at its completion; and the record an update is about to target is an
\* email.opened record.
C9_NonOpenedImmutable ==
    [][ /\ \A i \in 1..Len(store) :
            store[i].event_type # "email.opened"
            => i <= Len(store') /\ store'[i] = store[i]
        /\ \A p \in Procs :
            (pc'[p] # "idle" /\ body'[p].doc["type"] # "email.opened")
            => /\ acc'[p].select = 0 /\ acc'[p].update = 0
               /\ pc'[p] = "insert"
        /\ (last'.body.json /\ ~LacksType(last'.body)
                /\ last'.body.doc["type"] # "email.opened")
           => last'.acc.select = 0 /\ last'.acc.update = 0
        /\ \A p \in Procs :
            pc'[p] = "update"
            => store'[existing_event'[p]["id"]].event_type = "email.opened"
      ]_vars

C9_Witness ==
    /\ Len(store) = 3
    /\ store[1].event_type = "email.bounced" /\ store[1].email_id = "E1"
    /\ store[2].event_type = "email.bounced" /\ store[2].email_id = "E1"
    /\ store[3].event_type = "email.opened" /\ store[3].email_id = "E1"
    /\ store[3].opened_count = 2
    /\ last.resp = Success("Updated", OPENED)

\* C10: a call that answers with success has made exactly one store write,
\* one insert or one update.
C10_OneWritePerSuccess ==
    last.resp.status = 200 => last.acc.insert + last.acc.update = 1

C10_Witness ==
    /\ last.resp = Success("Updated", OPENED)
    /\ last.acc.update = 1 /\ last.acc.insert = 0
    /\ \E p \in Procs : pc[p] = "insert"

\* C11: a call whose select of the existing email.opened record raised is
\* answered with a 5xx status and has made no insert and no update; no call
\* goes on to another store access after its select raised.
C11_SelectFailurePropagates ==
    /\ \A p \in Procs : pc[p] # "idle" => acc[p].fault # "select raised"
    /\ last.acc.fault = "select raised"
       => /\ last.resp.status \in 500..599
          /\ last.acc.insert = 0 /\ last.acc.update = 0

C11_Witness ==
    /\ last.acc.fault = "select raised" /\ last.resp.status = 500
    /\ last.body.doc["type"] = "email.opened"
    /\ OpenedRows(last.body.doc["email_id"]) # {}
    /\ Quiet

\* C12: a call whose insert returned an empty result is answered with the
\* storage-failure 5xx response, never with success.
C12_EmptyInsertIsServerError ==
    last.acc.fault = "insert empty"
    => /\ last.resp.status \in 500..599
       /\ last.resp.detail =
            Str(HTTPException(500, "Failed to store webhook data"))

C12_Witness ==
    /\ last.acc.fault = "insert empty" /\ last.resp.status = 500
    /\ last.acc.insert = 1
    /\ last.body.doc["type"] = "email.bounced"
    /\ \A i \in 1..Len(store) : store[i].event_type # "email.bounced"

\* C13: a call that completes with success answers "Updated <event_type>
\* event" exactly when its last step was the update of a stored email.opened
\* record of its email_id (then its event is an email.opened), and "Stored
\* <event_type> event" exactly when its last step was the insert of a new row.
C13_MessageNamesTheWrite ==
    [][\A p \in Procs :
        (pc[p] # "idle" /\ pc'[p] = "idle" /\ last'.resp.status = 200)
        => LET ty == body[p].doc["type"] IN
           /\ last'.resp.message \in {"Updated", "Stored"}
           /\ last'.resp.event_type = ty
           /\ last'.resp.message = "Updated"
              <=> /\ pc[p] = "update" /\ last'.acc.update = 1
                  /\ last'.acc.insert = 0
                  /\ ty = "email.opened"
                  /\ Len(store') = Len(store)
                  /\ \E i \in 1..Len(store) :
                        /\ i = existing_event[p]["id"]
                        /\ store[i].event_type = "email.opened"
                        /\ store[i].email_id = body[p].doc["email_id"]
           /\ last'.resp.message = "Stored"
              <=> /\ pc[p] = "insert" /\ last'.acc.insert = 1
                  /\ last'.acc.update = 0
                  /\ Len(store') = Len(store) + 1]_vars

C13_Witness ==
    /\ last.resp = Success("Updated", "email.opened")
    /\ last.acc.update = 1
    /\ \E i \in 1..Len(store) :
          store[i].event_type = "email.bounced" /\ i > 1

\* C14: the event-specific fields are exclusive by type.  A stored
\* email.bounced record carries the bounce type, subtype and message of its
\* payload's bounce object (NULL where not provided) and no click and no
\* opened field; likewise a clicked record carries only click fields and an
\* opened record only opened fields; a record of any other event type carries
\* common fields only, and the call that stored it was answered with success.
C14_FieldsByType ==
    /\ \A i \in 1..Len(store) :
          LET row == store[i]
              payload == row.raw_payload.dumps
              bounce == IF "bounce" \in DOMAIN payload THEN payload["bounce"]
                        ELSE EmptyDict
              Unset(cols) == \A c \in cols : row[c] = None
          IN  /\ payload["type"] = row.event_type
              /\ row.event_type = "email.bounced"
                 => /\ row.bounce_type =
                         (IF "type" \in DOMAIN bounce THEN bounce["type"]
                          ELSE None)
                    /\ row.bounce_subtype =
                         (IF "subType" \in DOMAIN bounce THEN bounce["subType"]
                          ELSE None)
                    /\ row.bounce_message =
                         (IF "message" \in DOMAIN bounce THEN bounce["message"]
                          ELSE None)
                    /\ Unset(OpenedColumns \cup ClickColumns)
              /\ row.event_type = "email.clicked"
                 => Unset(OpenedColumns \cup BounceColumns)
              /\ row.event_type = "email.opened"
                 => Unset(ClickColumns \cup BounceColumns)
              /\ row.event_type \notin
                    {"email.bounced", "email.clicked", "email.opened"}
                 => Unset(OpenedColumns \cup BounceColumns \cup ClickColumns)
    /\ (last.body.json /\ ~LacksType(last.body) /\ last.acc.fault = ""
           /\ last.body.doc["type"] \notin
                 {"email.bounced", "email.clicked", "email.opened"})
       => /\ last.resp = Success("Stored", last.body.doc["type"])
          /\ store[Len(store)].event_type = last.body.doc["type"]

C14_Witness ==
    /\ Len(store) = 4
    /\ \E i \in 1..Len(store) :
          /\ store[i].event_type = "email.bounced"
          /\ store[i].bounce_type = 1 /\ store[i].bounce_subtype = 2
          /\ store[i].bounce_message = 3
          /\ "device_info" \in DOMAIN store[i].raw_payload.dumps
    /\ \E i \in 1..Len(store) :
          /\ store[i].event_type = "email.bounced"
          /\ store[i].bounce_type = 4 /\ store[i].bounce_subtype = None
    /\ \E i \in 1..Len(store) : store[i].event_type = "email.clicked"
    /\ last.resp = Success("Stored", "email.delivered")
    /\ "bounce" \in DOMAIN store[Len(store)].raw_payload.dumps

C16_FirstOpenedFallback ==
    [][\A p \in Procs :
        (pc[p] = "update" /\ pc'[p] = "idle")
        => LET id == existing_event[p]["id"] IN
           store'[id].first_opened_at =
              IF store[id].first_opened_at = None
              THEN EventTime(p)
              ELSE store[id].first_opened_at]_vars

\* C17: from an empty store and with the handler as the only writer, the
\* opened_count of every stored email.opened record is at least 1 and at most
\* the number of email.opened calls for its email_id that have written to
\* the store (inserted or updated) so far.
C17_CountBounds ==
    \A i \in 1..Len(store) :
        store[i].event_type = "email.opened"
        => /\ store[i].opened_count >= 1
           /\ store[i].opened_count <= opens[store[i].email_id].written

C17_Witness ==
    /\ opens["E1"].n = 4 /\ opens["E1"].written = 3
    /\ last.resp.status = 500 /\ last.acc.fault = "update raised"
    /\ \E i \in 1..Len(store) :
          /\ store[i].event_type = "email.opened" /\ store[i].email_id = "E1"
          /\ store[i].opened_count = 3

\* C18: the update of an existing email.opened record rewrites the whole
\* normalized record: afterwards its created_at, raw_payload, processed_at,
\* device_info, location_info and its other common fields are those of the
\* event being handled (processed_at the clock reading of this call), its
\* last_opened_at is that event's created_at and its opened_count one more
\* than before; only its id and its first_opened_at are carried over.
C18_UpdateRewritesRecord ==
    [][\A p \in Procs :
        (pc[p] = "update" /\ pc'[p] = "idle")
        => LET id == existing_event[p]["id"]
               payload == body[p].doc
               new == store'[id]
               old == store[id]
               Field(key) == IF key \in DOMAIN payload THEN payload[key]
                             ELSE None
           IN  /\ new.id = old.id
               /\ new.first_opened_at = old.first_opened_at
               /\ new.created_at = Field("created_at")
               /\ new.raw_payload.dumps = payload
               /\ new.processed_at = calls
               /\ new.device_info.dumps =
                    (IF "device_info" \in DOMAIN payload
                     THEN payload["device_info"] ELSE EmptyDict)
               /\ new.location_info.dumps =
                    (IF "location_info" \in DOMAIN payload
                     THEN payload["location_info"] ELSE EmptyDict)
               /\ new.from_email = Field("from")
               /\ new.subject = Field("subject")
               /\ new.tags.dumps =
                    (IF "tags" \in DOMAIN payload THEN payload["tags"]
                     ELSE <<>>)
               /\ new.last_opened_at = Field("created_at")
               /\ new.opened_count = old.opened_count + 1]_vars

C18_Witness ==
    /\ Len(store) = 1 /\ calls = 3 /\ Quiet
    /\ last.resp = Success("Updated", "email.opened")
    /\ store[1].opened_count = 2
    /\ store[1].first_opened_at = 1 /\ store[1].created_at = None
    /\ store[1].processed_at = 3
    /\ store[1].device_info = Dumps([os |-> 2])
    /\ store[1].location_info = Dumps(EmptyDict)
    /\ store[1].subject = None

\* C19: a step of a call for email_id E deletes no record, creates or changes
\* at most one record, and creates or changes only a record whose email_id
\* is E; an update changes only the record taken from the lookup result
\* (existing.data[0]), every other email.opened record of E stays as it is.
C19_OneRecordOfOwnEmail ==
    [][LET Touched == {i \in 1..Len(store') :
                          IF i <= Len(store) THEN store'[i] # store[i]
                          ELSE TRUE}
       IN  /\ Len(store') >= Len(store)
           /\ \A i \in 1..Len(store) : store'[i].id = store[i].id
           /\ Cardinality(Touched) <= 1
           /\ \A i \in Touched : \A p \in Procs :
                 pc'[p] # pc[p]
                 => /\ store'[i].email_id = body[p].doc["email_id"]
                    /\ i <= Len(store)
                       => /\ store[i].email_id = body[p].doc["email_id"]
                          /\ pc[p] = "update"
                          /\ i = existing_event[p]["id"]
                    /\ i > Len(store) => pc[p] = "insert"]_vars

C19_Witness ==
    /\ last.resp = Success("Updated", "email.opened")
    /\ last.body.doc["email_id"] = "E1"
    /\ \E i, j \in 1..Len(store) :
          /\ i # j
          /\ store[i].email_id = "E1" /\ store[j].email_id = "E1"
          /\ store[i].event_type = "email.opened"
          /\ store[j].event_type = "email.opened"
          /\ store[i].opened_count = 2 /\ store[j].opened_count = 1
    /\ \E k \in 1..Len(store) : store[k].email_id = "E2"
====
